---------------------------- MODULE Spec2Model ----------------------------
(***************************************************************************)
(* A model of AIM_LightGCN and BPRLoss (src/model.py).                     *)
(*                                                                         *)
(* Numbers.  Real values are exact rationals [n, d] (d > 0, lowest terms). *)
(* The two transcendental steps of the code are kept symbolic:             *)
(*   - F.normalize divides a row by max(||row||, eps); an output row is    *)
(*     the pair (numerators, denominator) where the denominator is either  *)
(*     1 (user rows), sqrt(sq) for a rational sq, or eps (1e-12);          *)
(*   - F.logsigmoid(x).mean() is the term "mean of logsigmoid over x",     *)
(*     recorded by its argument x.                                         *)
(* Tensors carry their shape, because several of the operations are        *)
(* decided by torch's shape rules (chunk, split, broadcasting, indexing).  *)
(***************************************************************************)
EXTENDS Integers, Sequences, FiniteSets, TLC

VARIABLES
    num_layers,   \* self.num_layers
    alpha,        \* the registered buffer 'alpha' (a tensor: shape and data)
    embedding,    \* self.embedding.weight, num_nodes x embedding_dim
    beta,         \* self.beta.weight, num_nodes x 1 (one scalar per node)
    ret           \* the last call: operation, arguments, outcome

vars == <<num_layers, alpha, embedding, beta, ret>>

\* ------------------------------------------------------------------ sizes

\* The configuration modelled: AIM_LightGCN(num_nodes, embedding_dim, ...).
num_nodes == 3
embedding_dim == 2

\* num_layers ranges over 0..MaxLayers.
MaxLayers == 2
\* Table entries drawn by the initializer lie in -MaxVal..MaxVal.
MaxVal == 1
\* The initializer's draws: sample tables 1..NumSamples.
NumSamples == 2
\* edge_label_index holds at most MaxLabel labeled edges.
MaxLabel == 4

Nodes == 0 .. (num_nodes - 1)

\* ------------------------------------------------------------- rationals

Abs(x) == IF x < 0 THEN -x ELSE x

RECURSIVE Gcd(_, _)
Gcd(a, b) == IF b = 0 THEN a ELSE Gcd(b, a % b)

\* n/d in lowest terms with a positive denominator (d # 0).
Rat(n, d) ==
    LET g == Gcd(Abs(n), Abs(d))
        s == IF d < 0 THEN -1 ELSE 1
    IN  [n |-> (s * n) \div g, d |-> (s * d) \div g]

Zero == [n |-> 0, d |-> 1]
One == [n |-> 1, d |-> 1]
FromInt(i) == [n |-> i, d |-> 1]

RAdd(x, y) == Rat(x.n * y.d + y.n * x.d, x.d * y.d)
RSub(x, y) == Rat(x.n * y.d - y.n * x.d, x.d * y.d)
RMul(x, y) == Rat(x.n * y.n, x.d * y.d)
RDiv(x, y) == Rat(x.n * y.d, x.d * y.n)
RLess(x, y) == x.n * y.d < y.n * x.d

\* ----------------------------------------------------- rows and matrices

\* A row is a sequence of rationals; a matrix is a sequence of rows.  Node i
\* (0-based, as in the code) is row i + 1.

\* The function f over 1..n as an evaluated tuple (its elements computed
\* once, here, and not again at each later use).
Tup(f) == f \o <<>>

RowScale(row, c) == Tup([k \in 1 .. Len(row) |-> RMul(row[k], c)])
RowAdd(r1, r2) == Tup([k \in 1 .. Len(r1) |-> RAdd(r1[k], r2[k])])
RowMul(r1, r2) == Tup([k \in 1 .. Len(r1) |-> RMul(r1[k], r2[k])])

RECURSIVE RowSum(_)
RowSum(row) == IF row = <<>> THEN Zero ELSE RAdd(Head(row), RowSum(Tail(row)))

\* (r1 * r2).sum(dim=-1)
Dot(r1, r2) == RowSum(RowMul(r1, r2))

MatScale(m, c) == Tup([i \in 1 .. Len(m) |-> RowScale(m[i], c)])
MatAdd(m1, m2) == Tup([i \in 1 .. Len(m1) |-> RowAdd(m1[i], m2[i])])

ZeroRow(dim) == Tup([k \in 1 .. dim |-> Zero])

\* ------------------------------------------------------ optional values

\* An argument as Python passes it: None, an int, a float or a tensor.
None == [kind |-> "none", v |-> 0]
IntArg(i) == [kind |-> "int", v |-> i]
FloatArg(r) == [kind |-> "float", v |-> r]
TensorArg(t) == [kind |-> "tensor", v |-> t]

Error(msg) == [status |-> "error", error |-> msg]


\* ---------------------------------------------------------- construction

\* The caller holds no result: nothing was called yet, or the last result
\* was dropped.
Idle == [op |-> "idle", args |-> <<>>, status |-> "ok", error |-> ""]

\* A 1-D tensor of scalars.
Tensor1(data) == [shape |-> <<Len(data)>>, data |-> data]
\* A 2-D tensor, rows x cols, given by its rows.
Tensor2(rows, cols, data) == [shape |-> <<rows, cols>>, data |-> data]

\* One draw of torch.nn.init.xavier_uniform_ for the embedding table: the
\* entries are spread over -MaxVal..MaxVal; sample k is one such table.
XavierEmbedding(k) ==
    Tup([i \in 1 .. num_nodes |->
        Tup([j \in 1 .. embedding_dim |->
            FromInt(((i * k + j + k) % (2 * MaxVal + 1)) - MaxVal)])])

\* One draw of xavier_uniform_ for the bias table (num_nodes x 1).
XavierBeta(k) ==
    Tup([i \in 1 .. num_nodes |-> FromInt(((i * k + k) % (2 * MaxVal + 1)) - MaxVal)])

\* The draws of the two tables that reset_parameters can make.
XavierDraws ==
    {[embedding |-> XavierEmbedding(k), beta |-> XavierBeta(k)] : k \in 1 .. NumSamples}

\* The alpha argument of __init__: absent, a float, a 1-D Tensor, or another
\* sequence (a Python list); val holds its scalars (a float: one of them).
AlphaNone == [kind |-> "none", val |-> <<>>]
AlphaFloat(a) == [kind |-> "float", val |-> <<a>>]
AlphaTensor(seq) == [kind |-> "tensor", val |-> seq]
AlphaList(seq) == [kind |-> "list", val |-> seq]

\* Lines 23-30 of __init__: the buffer that is registered, or the failure.
AlphaBuffer(L, a) ==
    LET a1 == IF a.kind = "none" THEN AlphaFloat(Rat(1, L + 1)) ELSE a
    IN  IF a1.kind = "tensor"
        THEN IF Len(a1.val) = L + 1
             THEN [status |-> "ok", alpha |-> Tensor1(a1.val)]
             ELSE Error("AssertionError")
        ELSE \* torch.tensor([alpha] * (num_layers + 1))
             IF a1.kind = "float"
             THEN [status |-> "ok",
                   alpha |-> Tensor1(Tup([i \in 1 .. (L + 1) |-> a1.val[1]]))]
             ELSE [status |-> "ok",
                   alpha |-> Tensor2(L + 1, Len(a1.val),
                                     Tup([i \in 1 .. (L + 1) |-> a1.val]))]

\* The scalars an explicit alpha is built from.
AlphaVals == {Zero, One}

RECURSIVE SeqsOf(_, _)
\* All sequences of length len over the set S.
SeqsOf(S, len) ==
    IF len = 0 THEN {<<>>}
    ELSE {<<x>> \o t : x \in S, t \in SeqsOf(S, len - 1)}

\* The alpha arguments of the documented types (None, float, 1-D Tensor).
TypedAlphaArgs ==
    {AlphaNone}
    \cup {AlphaFloat(a) : a \in AlphaVals}
    \cup UNION {{AlphaTensor(s) : s \in SeqsOf(AlphaVals, len)} :
                    len \in 1 .. (MaxLayers + 2)}

\* Every form the alpha argument is passed in, a Python list included.
AllAlphaArgs ==
    TypedAlphaArgs
    \cup UNION {{AlphaList(s) : s \in SeqsOf(AlphaVals, len)} :
                    len \in 1 .. (MaxLayers + 2)}

\* AIM_LightGCN(num_nodes, embedding_dim, L, a), where no object exists yet;
\* a failed construction leaves none.
Construct(L, a) ==
    /\ ret.op = "idle"
    /\ embedding = <<>>
    /\ LET b == AlphaBuffer(L, a)
       IN  IF b.status = "error"
           THEN /\ ret' = [op |-> "__init__",
                           args |-> [num_layers |-> L, alpha |-> a],
                           status |-> "error", error |-> b.error]
                /\ UNCHANGED <<num_layers, alpha, embedding, beta>>
           ELSE \E w \in XavierDraws :
                /\ num_layers' = L
                /\ alpha' = b.alpha
                /\ embedding' = w.embedding
                /\ beta' = w.beta
                /\ ret' = [op |-> "__init__",
                           args |-> [num_layers |-> L, alpha |-> a],
                           status |-> "ok", error |-> ""]

\* reset_parameters(): both tables are drawn afresh; LGConv has no parameters.
reset_parameters ==
    /\ ret.op = "idle"
    /\ \E w \in XavierDraws :
        /\ embedding' = w.embedding
        /\ beta' = w.beta
        /\ ret' = [op |-> "reset_parameters", args |-> <<>>, status |-> "ok", error |-> ""]
        /\ UNCHANGED <<num_layers, alpha>>

\* Before any construction: no object.
InitCtor ==
    /\ num_layers = 0
    /\ alpha = Tensor1(<<>>)
    /\ embedding = <<>>
    /\ beta = <<>>
    /\ ret = Idle

\* A failed construction is given up, and another one is tried.
GiveUp ==
    /\ ret.status = "error"
    /\ ret' = Idle
    /\ UNCHANGED <<num_layers, alpha, embedding, beta>>

NextCtor ==
    \/ \E L \in 0 .. MaxLayers : \E a \in AllAlphaArgs : Construct(L, a)
    \/ GiveUp

\* Construction alone, with every form of the alpha argument.
SpecCtor == InitCtor /\ [][NextCtor]_vars

\* ------------------------------------------------------------- the graph

\* edge_index: an edge list (row = source nodes, col = target nodes) or a
\* sparse adjacency (entry (row, col) of value 1).
EdgeList(row, col) == [sparse |-> FALSE, row |-> row, col |-> col]
Sparse(row, col) == [sparse |-> TRUE, row |-> row, col |-> col]

\* The graphs the calls are made with: user 0 linked to item 1 (item 2
\* isolated) as a sparse adjacency, and user 0 linked to both items as an
\* edge list.
Graphs ==
    { Sparse(<<0, 1>>, <<1, 0>>),
      EdgeList(<<0, 1, 0, 2>>, <<1, 0, 2, 0>>) }

\* The edge_weight arguments for a graph: None, or (an edge list) weight 2 on
\* every edge.
EdgeWeights(g) ==
    IF g.sparse THEN {None}
    ELSE {None, TensorArg(Tup([e \in 1 .. Len(g.row) |-> FromInt(2)]))}

\* to_edge_index(adj): the (row, col) pair of a sparse adjacency.
to_edge_index(g) == <<g.row, g.col>>

RECURSIVE Aggregate(_, _, _, _, _)
\* The sum over edges e..Len of weight * x[source], for the edges into node i.
Aggregate(x, g, ew, i, e) ==
    IF e > Len(g.row) THEN ZeroRow(embedding_dim)
    ELSE LET rest == Aggregate(x, g, ew, i, e + 1)
             \* an edge list sends row -> col; adj_t @ x sums x[col] into row
             src == IF g.sparse THEN g.col[e] ELSE g.row[e]
             dst == IF g.sparse THEN g.row[e] ELSE g.col[e]
             w == IF g.sparse \/ ew.kind = "none" THEN One ELSE ew.v[e]
         IN  IF dst = i THEN RowAdd(RowScale(x[src + 1], w), rest) ELSE rest

\* One propagation hop: each node's new row is the weighted sum of its
\* neighbours' rows; no parameters.  This is torch_geometric's LGConv as
\* __init__ builds it with normalize=False among its keyword arguments (the
\* default rescales each edge by 1/sqrt(deg(i) * deg(j)), which is 1 on the
\* first graph of Graphs); a sparse adjacency carries its own values and the
\* edge_weight argument is not used with it.
LGConv(x, g, ew) == Tup([i \in 1 .. Len(x) |-> Aggregate(x, g, ew, i - 1, 1)])

\* ---------------------------------------------------------- get_embedding

\* The denominator of an output row: 1, sqrt(sq), or eps = 1e-12.
DenOne == [kind |-> "one", sq |-> One]
DenSqrt(sq) == [kind |-> "sqrt", sq |-> sq]
DenEps == [kind |-> "eps", sq |-> Zero]

\* self.alpha[i]: an index past the buffer raises IndexError.
AlphaInRange(i) == i < alpha.shape[1]
AlphaAt(i) == alpha.data[i + 1]

RECURSIVE Hops(_, _, _, _, _)
\* Lines 49-51, from iteration i on: x is the last hop, out the mix so far.
Hops(i, x, out, g, ew) ==
    IF i >= num_layers
    THEN [status |-> "ok", error |-> "", out |-> out, conv_calls |-> i,
          alpha_reads |-> 0 .. i]
    ELSE IF ~AlphaInRange(i + 1)
         THEN [status |-> "error", error |-> "IndexError", out |-> out,
               conv_calls |-> i + 1, alpha_reads |-> 0 .. (i + 1)]
         ELSE LET x1 == LGConv(x, g, ew)
              IN  Hops(i + 1, x1, MatAdd(out, MatScale(x1, AlphaAt(i + 1))), g, ew)

RECURSIVE Hops_StaleAlpha(_, _, _, _, _)
\* The loop with alpha[i] in place of alpha[i + 1].
Hops_StaleAlpha(i, x, out, g, ew) ==
    IF i >= num_layers
    THEN [status |-> "ok", error |-> "", out |-> out, conv_calls |-> i,
          alpha_reads |-> 0 .. i]
    ELSE LET x1 == LGConv(x, g, ew)
         IN  Hops_StaleAlpha(i + 1, x1, MatAdd(out, MatScale(x1, AlphaAt(i))), g, ew)

MixHops_StaleAlpha(g, ew) ==
    Hops_StaleAlpha(0, embedding, MatScale(embedding, AlphaAt(0)), g, ew)

\* Lines 46-51: out = x * alpha[0], then one hop per layer.
MixHops(g, ew) ==
    IF ~AlphaInRange(0)
    THEN [status |-> "error", error |-> "IndexError", out |-> <<>>,
          conv_calls |-> 0, alpha_reads |-> {0}]
    ELSE Hops(0, embedding, MatScale(embedding, AlphaAt(0)), g, ew)

\* torch.split(out, [num_users, num_items]): the sizes must be ints, none
\* negative, summing to the number of rows.
Split_NoCheck(out, nu, ni) ==
    IF nu.kind # "int" \/ ni.kind # "int"
    THEN Error("TypeError")
    ELSE [status |-> "ok", error |-> "",
          user |-> Tup([i \in 1 .. nu.v |-> out[i]]),
          item |-> Tup([i \in 1 .. (Len(out) - nu.v) |-> out[nu.v + i]])]

Split(out, nu, ni) ==
    IF nu.kind # "int" \/ ni.kind # "int"
    THEN Error("TypeError")
    ELSE IF nu.v < 0 \/ ni.v < 0 \/ nu.v + ni.v # Len(out)
         THEN Error("RuntimeError")
         ELSE [status |-> "ok", error |-> "",
               user |-> SubSeq(out, 1, nu.v),
               item |-> SubSeq(out, nu.v + 1, Len(out))]

\* The normalization without the rescaling by s.
Normalize_NoScale(row, s) ==
    LET sq == Dot(row, row)
    IN  [num |-> row, den |-> IF sq = Zero THEN DenEps ELSE DenSqrt(sq)]

\* F.normalize(row, p=2) * s: the row divided by max(||row||, eps), times s.
\* Every nonzero squared norm of the model is a ratio of 32-bit integers, so
\* above eps^2 = 1e-24: the clamp to eps acts on the zero row only.
Normalize(row, s) ==
    LET sq == Dot(row, row)
    IN  [num |-> RowScale(row, s),
         den |-> IF sq = Zero THEN DenEps ELSE DenSqrt(sq)]

\* Lines 53-57: split the mix, normalize and rescale the item block, and
\* concatenate; a failure returns no array.
SplitNormalizeCat(mix, nu, ni, s) ==
    LET parts == Split(mix.out, nu, ni)
        failed(msg) == [status |-> "error", error |-> msg, out |-> <<>>,
                        conv_calls |-> mix.conv_calls,
                        alpha_reads |-> mix.alpha_reads]
    IN  IF mix.status = "error" THEN failed(mix.error)
        ELSE IF parts.status = "error" THEN failed(parts.error)
        ELSE IF s.kind = "none" THEN failed("TypeError")
        ELSE [status |-> "ok", error |-> "",
              out |-> [i \in 1 .. Len(parts.user) |->
                          [num |-> parts.user[i], den |-> DenOne]]
                      \o [i \in 1 .. Len(parts.item) |->
                             Normalize(parts.item[i], s.v)],
              conv_calls |-> mix.conv_calls, alpha_reads |-> mix.alpha_reads]

\* get_embedding(edge_index, edge_weight, num_users, num_items, scaling_factor)
get_embedding(g, ew, nu, ni, s) == SplitNormalizeCat(MixHops(g, ew), nu, ni, s)

\* The partition sizes and scaling factors the calls are made with.
Sizes == {None} \cup {IntArg(n) : n \in 0 .. num_nodes}
Scalings == {None, FloatArg(One), FloatArg(FromInt(2))}

GetEmbedding ==
    /\ ret.op = "idle"
    /\ \E g \in Graphs : \E ew \in EdgeWeights(g) :
       LET mix == MixHops(g, ew) IN
       \E nu \in Sizes, ni \in Sizes, s \in Scalings :
          LET r == SplitNormalizeCat(mix, nu, ni, s)   \* get_embedding(g, ew, nu, ni, s)
          IN  ret' = [op |-> "get_embedding",
                      args |-> [graph |-> g, edge_weight |-> ew, num_users |-> nu,
                                num_items |-> ni, scaling_factor |-> s],
                      status |-> r.status, error |-> r.error, result |-> r]
    /\ UNCHANGED <<num_layers, alpha, embedding, beta>>

\* ---------------------------------------------------------------- forward

\* edge_label_index, a 2 x m tensor: row 0 the sources, row 1 the
\* destinations of the m labeled edges.
LabelIndex(edges) ==
    [src |-> Tup([k \in 1 .. Len(edges) |-> edges[k][1]]),
     dst |-> Tup([k \in 1 .. Len(edges) |-> edges[k][2]])]

\* tensor.chunk(2) of a 1-D tensor of m entries: chunks of ceil(m / 2)
\* entries (one chunk if m = 1; two empty chunks if m = 0).
Chunk2(seq) ==
    LET m == Len(seq)
        size == (m + 1) \div 2
    IN  IF m = 0 THEN <<seq, seq>>
        ELSE IF size >= m THEN <<seq>>
        ELSE <<SubSeq(seq, 1, size), SubSeq(seq, size + 1, m)>>

\* A score: dot / (dens[1] * dens[2]) + bias.
Score(dot, dens, bias) == [dot |-> dot, dens |-> dens, bias |-> bias]

\* (out_src * out_dst).sum(dim=-1) for one pair of output rows.
RowDot(r1, r2) == Score(Dot(r1.num, r2.num), <<r1.den, r2.den>>, Zero)

\* self.beta.weight[items]: a len(items) x 1 tensor.
BetaAt(items) ==
    Tensor2(Len(items), 1, Tup([i \in 1 .. Len(items) |-> <<beta[items[i] + 1]>>]))

\* rank + bias as torch broadcasts a [q] tensor against a [p, 1] tensor: the
\* [p, q] tensor with entry (i, j) = rank[j] + bias[i][0].
BroadcastAdd(rank, bias) ==
    Tensor2(bias.shape[1], Len(rank),
        Tup([i \in 1 .. bias.shape[1] |->
            Tup([j \in 1 .. Len(rank) |->
                Score(rank[j].dot, rank[j].dens,
                      RAdd(rank[j].bias, bias.data[i][1]))])]))

\* The labeled edges: edge_label_index, or the graph's own edges.
Labels(g, eli) ==
    IF eli.kind = "none"
    THEN IF g.sparse
         THEN [src |-> to_edge_index(g)[1], dst |-> to_edge_index(g)[2]]
         ELSE [src |-> g.row, dst |-> g.col]
    ELSE eli.v

\* Lines 71-80: the scores of the labeled edges lab from the embedding emb,
\* halved, the bias of each half's destinations added.
ScoreEdges(emb, lab) ==
    LET m == Len(lab.src)
    IN  IF emb.status = "error" THEN Error(emb.error)
        ELSE IF \E k \in 1 .. m : lab.src[k] \notin Nodes \/ lab.dst[k] \notin Nodes
        THEN Error("IndexError")
        ELSE LET pos_neg_rank ==
                     Tup([k \in 1 .. m |->
                         RowDot(emb.out[lab.src[k] + 1], emb.out[lab.dst[k] + 1])])
                 ranks == Chunk2(pos_neg_rank)
                 items == Chunk2(lab.dst)
             IN  IF Len(ranks) # 2 \/ Len(items) # 2
                 THEN Error("ValueError")   \* one chunk unpacked into two names
                 ELSE [status |-> "ok", error |-> "",
                       pos_rank |-> BroadcastAdd(ranks[1], BetaAt(items[1])),
                       neg_rank |-> BroadcastAdd(ranks[2], BetaAt(items[2]))]

\* forward(edge_index, edge_label_index, num_users, num_items,
\*         scaling_factor, edge_weight)
forward(g, eli, nu, ni, s, ew) ==
    ScoreEdges(get_embedding(g, ew, nu, ni, s), Labels(g, eli))

\* The edges that are labeled: user 0 to item 1, user 0 to item 2.
LabelEdges == {<<0, 1>>, <<0, 2>>}

EdgeLabelArgs ==
    {None} \cup
    UNION {{TensorArg(LabelIndex(es)) : es \in SeqsOf(LabelEdges, m)} :
               m \in 0 .. MaxLabel}

\* The (num_users, num_items, scaling_factor) that forward is called with.
ForwardSizes ==
    { <<IntArg(1), IntArg(2), FloatArg(One)>>,
      <<IntArg(2), IntArg(1), FloatArg(FromInt(2))>>,
      <<IntArg(1), IntArg(1), FloatArg(One)>> }

Forward ==
    /\ ret.op = "idle"
    /\ \E g \in Graphs : \E ew \in EdgeWeights(g) : \E z \in ForwardSizes :
       LET emb == get_embedding(g, ew, z[1], z[2], z[3]) IN
       \E eli \in EdgeLabelArgs :
          LET r == ScoreEdges(emb, Labels(g, eli))   \* forward(g, eli, z, ew)
          IN  ret' = [op |-> "forward",
                      args |-> [graph |-> g, edge_label_index |-> eli,
                                num_users |-> z[1], num_items |-> z[2],
                                scaling_factor |-> z[3], edge_weight |-> ew],
                      status |-> r.status, error |-> r.error, result |-> r]
    /\ UNCHANGED <<num_layers, alpha, embedding, beta>>

\* ----------------------------------------------------------- predict_link

\* predict_link(edge_index, edge_label_index, edge_weight, prob): line 84
\* passes edge_weight as forward's third positional argument, num_users, and
\* calls .sigmoid() on what forward returns, a tuple.
predict_link(g, eli, ew, prob) ==
    LET r == forward(g, eli, ew, None, None, None)
        call == [num_users |-> ew, num_items |-> None, scaling_factor |-> None,
                 edge_weight |-> None]
    IN  [status |-> "error",
         error |-> IF r.status = "error" THEN r.error ELSE "AttributeError",
         forward_call |-> call]

PredictLink ==
    /\ ret.op = "idle"
    /\ \E g \in Graphs : \E ew \in EdgeWeights(g) :
       \E eli \in {None, TensorArg(LabelIndex(<<<<0, 1>>, <<0, 2>>>>))} :
       \E prob \in BOOLEAN :
          LET r == predict_link(g, eli, ew, prob)
          IN  ret' = [op |-> "predict_link",
                      args |-> [graph |-> g, edge_label_index |-> eli,
                                edge_weight |-> ew, prob |-> prob],
                      status |-> r.status, error |-> r.error, result |-> r]
    /\ UNCHANGED <<num_layers, alpha, embedding, beta>>

\* -------------------------------------------------------------- recommend

\* The square of the product of a score's denominators (eps: see ScoreLess).
DensSq(sc) == RMul(sc.dens[1].sq, sc.dens[2].sq)

\* A score with an eps denominator has a zero row as a factor: it is 0.
IsZeroScore(sc) ==
    sc.dot = Zero \/ sc.dens[1].kind = "eps" \/ sc.dens[2].kind = "eps"

\* x < y for two scores without bias, x = a / sqrt(p) and y = b / sqrt(q).
ScoreLess(x, y) ==
    LET a == IF IsZeroScore(x) THEN Zero ELSE x.dot
        b == IF IsZeroScore(y) THEN Zero ELSE y.dot
        p == IF IsZeroScore(x) THEN One ELSE DensSq(x)
        q == IF IsZeroScore(y) THEN One ELSE DensSq(y)
        l == RMul(RMul(a, a), q)
        r == RMul(RMul(b, b), p)
    IN  IF RLess(a, Zero)
        THEN IF RLess(b, Zero) THEN RLess(r, l) ELSE TRUE
        ELSE IF RLess(b, Zero) THEN FALSE ELSE RLess(l, r)

\* The column of the largest entry of a row among the columns in left (the
\* lowest column among equal entries).
ArgMax(row, left) ==
    CHOOSE j \in left :
        \A i \in left :
            /\ ~ScoreLess(row[j], row[i])
            /\ ScoreLess(row[i], row[j]) \/ j <= i

RECURSIVE TopK(_, _, _)
\* row.topk(k).indices, 0-based, in descending order of the entries.
TopK(row, k, left) ==
    IF k = 0 THEN <<>>
    ELSE LET j == ArgMax(row, left)
         IN  <<j - 1>> \o TopK(row, k - 1, left \ {j})

\* Lines 91-103: the restriction to src_index and dst_index, the dense
\* product, the top k columns of each row, mapped back through dst_index.
TopKRetrieve(out, si, di, k) ==
    LET out_src == IF si.kind = "none" THEN out
                   ELSE Tup([i \in 1 .. Len(si.v) |-> out[si.v[i] + 1]])
        out_dst == IF di.kind = "none" THEN out
                   ELSE Tup([j \in 1 .. Len(di.v) |-> out[di.v[j] + 1]])
        pred == Tup([i \in 1 .. Len(out_src) |->
                    Tup([j \in 1 .. Len(out_dst) |-> RowDot(out_src[i], out_dst[j])])])
    IN  IF k > Len(out_dst) THEN Error("RuntimeError")
        ELSE LET top == Tup([i \in 1 .. Len(pred) |->
                            TopK(pred[i], k, 1 .. Len(out_dst))])
             IN  [status |-> "ok", error |-> "",
                  top_index |->
                      IF di.kind = "none" THEN top
                      ELSE Tup([i \in 1 .. Len(top) |->
                               Tup([c \in 1 .. k |-> di.v[top[i][c] + 1]])])]

\* recommend(edge_index, edge_weight, src_index, dst_index, k): line 89
\* calls get_embedding with neither partition sizes nor scaling factor.
recommend(g, ew, si, di, k) ==
    LET emb == get_embedding(g, ew, None, None, None)
    IN  IF emb.status = "error" THEN Error(emb.error)
        ELSE TopKRetrieve(emb.out, si, di, k)

\* The index arguments of recommend: absent, the user, the items.
SrcIndexArgs == {None, TensorArg(<<0>>)}
DstIndexArgs == {None, TensorArg(<<1, 2>>)}

Recommend ==
    /\ ret.op = "idle"
    /\ \E g \in Graphs : \E ew \in EdgeWeights(g) :
       \E si \in SrcIndexArgs, di \in DstIndexArgs, k \in 1 .. 2 :
          LET r == recommend(g, ew, si, di, k)
          IN  ret' = [op |-> "recommend",
                      args |-> [graph |-> g, edge_weight |-> ew, src_index |-> si,
                                dst_index |-> di, k |-> k],
                      status |-> r.status, error |-> r.error, result |-> r]
    /\ UNCHANGED <<num_layers, alpha, embedding, beta>>

\* ---------------------------------------------------- recommendation_loss

RECURSIVE SumSq(_)
\* The sum of the squares of a matrix's entries: parameters.norm(p=2).pow(2).
SumSq(m) == IF m = <<>> THEN Zero ELSE RAdd(Dot(Head(m), Head(m)), SumSq(Tail(m)))

\* The loss for lambda_reg, as BPRLoss.forward would return it if the
\* regularization were computed whatever lambda_reg is.
BPRLoss_forward_AlwaysNorm(lambda_reg, positives, negatives, parameters) ==
    [nll_of |-> Tup([k \in 1 .. Len(positives) |-> positives[k] - negatives[k]]),
     regularization |-> RDiv(RMul(lambda_reg, SumSq(parameters)),
                             FromInt(Len(positives))),
     norm_computed |-> TRUE]

\* BPRLoss(lambda_reg).forward(positives, negatives, parameters): the loss
\* -mean(logsigmoid(nll_of)) + regularization, and whether the norm of the
\* parameters was taken.
BPRLoss_forward(lambda_reg, positives, negatives, parameters) ==
    [nll_of |-> Tup([k \in 1 .. Len(positives) |-> positives[k] - negatives[k]]),
     regularization |->
         IF lambda_reg # Zero
         THEN RDiv(RMul(lambda_reg, SumSq(parameters)), FromInt(Len(positives)))
         ELSE Zero,
     norm_computed |-> lambda_reg # Zero]

\* recommendation_loss(pos_edge_rank, neg_edge_rank, node_id, lambda_reg)
recommendation_loss(pos, neg, node_id, lambda_reg) ==
    LET emb == IF node_id.kind = "none" THEN embedding
               ELSE Tup([i \in 1 .. Len(node_id.v) |-> embedding[node_id.v[i] + 1]])
    IN  BPRLoss_forward(lambda_reg, pos, neg, emb)

\* The rank vectors the loss is called with: 1 or 2 scores, each 0 or 2.
RankVectors == SeqsOf({0, 2}, 1) \cup SeqsOf({0, 2}, 2)
NodeIdArgs == {None, TensorArg(<<0>>), TensorArg(<<1, 2>>)}
\* lambda_reg: 0, or the default 1e-4.
LambdaRegs == {Zero, Rat(1, 10000)}

RecommendationLoss ==
    /\ ret.op = "idle"
    /\ \E pos \in RankVectors, neg \in RankVectors :
       \E node_id \in NodeIdArgs, lambda_reg \in LambdaRegs :
          /\ Len(pos) = Len(neg)
          /\ ret' = [op |-> "recommendation_loss",
                     args |-> [pos_edge_rank |-> pos, neg_edge_rank |-> neg,
                               node_id |-> node_id, lambda_reg |-> lambda_reg],
                     status |-> "ok", error |-> "",
                     result |-> recommendation_loss(pos, neg, node_id, lambda_reg)]
    /\ UNCHANGED <<num_layers, alpha, embedding, beta>>

\* ------------------------------------------------------ the specification

\* After a successful construction with an alpha of a documented type.
Init ==
    \E L \in 0 .. MaxLayers : \E a \in TypedAlphaArgs : \E w \in XavierDraws :
        /\ AlphaBuffer(L, a).status = "ok"
        /\ num_layers = L
        /\ alpha = AlphaBuffer(L, a).alpha
        /\ embedding = w.embedding
        /\ beta = w.beta
        /\ ret = Idle

\* The caller is done with the last call's outcome; the next call is made.
Return ==
    /\ ret.op # "idle"
    /\ ret' = Idle
    /\ UNCHANGED <<num_layers, alpha, embedding, beta>>

Next ==
    \/ reset_parameters
    \/ GetEmbedding
    \/ Forward
    \/ PredictLink
    \/ Recommend
    \/ RecommendationLoss
    \/ Return

Spec == Init /\ [][Next]_vars

\* ---------------------------------------------------- get_embedding claims

\* A value above every finite one: a nonzero numerator over eps.
Infinity == [n |-> 1, d |-> 0]

\* The squared Euclidean norm of an output row num / den.
NormSq(row) ==
    LET dot == Dot(row.num, row.num)
    IN  CASE row.den.kind = "one" -> dot
          [] row.den.kind = "sqrt" -> RDiv(dot, row.den.sq)
          [] OTHER -> IF dot = Zero THEN Zero ELSE Infinity

GotEmbedding == ret.op = "get_embedding" /\ ret.status = "ok"

\* The item rows of a returned array: num_users + 1 .. num_nodes.
ItemRows == (ret.args.num_users.v + 1) .. num_nodes
UserRows == 1 .. ret.args.num_users.v

\* The mix of the hops that the last get_embedding call normalized.
LastMix == MixHops(ret.args.graph, ret.args.edge_weight).out

\* C7 as stated: for every scaling_factor s > 0 and every table (a zero mixed
\* item row included), every item row of the get_embedding output has
\* Euclidean norm s.
C7_AllItemRowsHaveNormS ==
    GotEmbedding =>
        \A i \in ItemRows :
            NormSq(ret.result.out[i]) =
                RMul(ret.args.scaling_factor.v, ret.args.scaling_factor.v)

\* C7 amended: every item row whose mixed row has a Euclidean norm of at
\* least eps = 1e-12 (here: every nonzero mixed row) has Euclidean norm s; an
\* item row whose mixed row is the zero vector is returned as the zero vector
\* (norm 0).
C7_NonzeroItemRowsHaveNormS ==
    GotEmbedding =>
        \A i \in ItemRows :
            IF Dot(LastMix[i], LastMix[i]) # Zero
            THEN NormSq(ret.result.out[i]) =
                     RMul(ret.args.scaling_factor.v, ret.args.scaling_factor.v)
            ELSE /\ NormSq(ret.result.out[i]) = Zero
                 /\ ret.result.out[i].num = ZeroRow(embedding_dim)

\* C7's case: scaling factor 2, one item row normalized to norm 2 and one
\* item row whose mixed row is zero.
C7_Witness ==
    /\ GotEmbedding
    /\ ret.args.scaling_factor.v = FromInt(2)
    /\ \E i \in ItemRows :
          /\ Dot(LastMix[i], LastMix[i]) # Zero
          /\ NormSq(ret.result.out[i]) = FromInt(4)
    /\ \E i \in ItemRows : Dot(LastMix[i], LastMix[i]) = Zero

\* The call's sizes are ints that add up to num_nodes.
PartitionOk(args) ==
    /\ args.num_users.kind = "int"
    /\ args.num_items.kind = "int"
    /\ args.num_users.v + args.num_items.v = num_nodes

\* C8: get_embedding fails and returns no array whenever num_users +
\* num_items differs from num_nodes and whenever scaling_factor is omitted,
\* and such a call leaves the embedding table, the bias table and alpha as
\* they were.
C8_RejectsBadPartitionOrNoScaling ==
    /\ [](ret.op = "get_embedding"
            /\ (~PartitionOk(ret.args) \/ ret.args.scaling_factor.kind = "none")
          => ret.status = "error" /\ ret.result.out = <<>>)
    /\ [][ret'.op = "get_embedding" => UNCHANGED <<embedding, beta, alpha>>]_vars

\* C8's case: a call with a scaling factor and int sizes that add up to less
\* than num_nodes, which failed.
C8_Witness ==
    /\ ret.op = "get_embedding"
    /\ ret.status = "error"
    /\ ret.args.num_users.kind = "int"
    /\ ret.args.num_items.kind = "int"
    /\ ret.args.num_users.v + ret.args.num_items.v < num_nodes
    /\ ret.args.scaling_factor.kind = "float"

RECURSIVE HopAt(_, _, _)
\* hop_0 is the raw table, hop_l the propagation of hop_(l-1).
HopAt(l, g, ew) == IF l = 0 THEN embedding ELSE LGConv(HopAt(l - 1, g, ew), g, ew)

RECURSIVE WeightedHopSum(_, _, _, _)
\* Row u of the sum over l..num_layers of alpha[l] * hop_l.
WeightedHopSum(l, u, g, ew) ==
    IF l > num_layers THEN ZeroRow(embedding_dim)
    ELSE RowAdd(RowScale(HopAt(l, g, ew)[u], alpha.data[l + 1]),
                WeightedHopSum(l + 1, u, g, ew))

\* C10: get_embedding applies the propagation layer exactly num_layers
\* times, reads alpha[0..num_layers] only, and returns user rows equal to the
\* rows of sum_l alpha[l] * hop_l, not normalized.
C10_UserRowsAreTheHopMix ==
    ret.op = "get_embedding" =>
        /\ ret.result.conv_calls = num_layers
        /\ ret.result.alpha_reads = 0 .. num_layers
        /\ ret.status = "ok" =>
              \A u \in UserRows :
                 /\ ret.result.out[u].den = DenOne
                 /\ ret.result.out[u].num =
                        WeightedHopSum(0, u, ret.args.graph, ret.args.edge_weight)

\* C10's case: two layers, a user row that the hops changed.
C10_Witness ==
    /\ GotEmbedding
    /\ num_layers = 2
    /\ \E u \in UserRows :
          /\ ret.result.out[u].num # RowScale(embedding[u], alpha.data[1])
          /\ ret.result.out[u].num # ZeroRow(embedding_dim)

\* ---------------------------------------------------------- forward claims

\* The labeled edges of the last forward call, and their number.
LastLabels == Labels(ret.args.graph, ret.args.edge_label_index)
LabelCount == Len(LastLabels.src)

\* The last forward call had a good partition and a scaling factor.
ForwardArgsOk == PartitionOk(ret.args) /\ ret.args.scaling_factor.kind = "float"

\* C1: with 2n labeled edges, n >= 1, a good partition and a scaling factor,
\* forward returns pos_rank and neg_rank, each a one-dimensional vector of n
\* scores.
C1_RanksAreVectorsOfLengthN ==
    ret.op = "forward" /\ ForwardArgsOk /\ LabelCount >= 2 /\ LabelCount % 2 = 0
    => /\ ret.status = "ok"
       /\ ret.result.pos_rank.shape = <<LabelCount \div 2>>
       /\ ret.result.neg_rank.shape = <<LabelCount \div 2>>

\* The values held by entry i of a returned rank tensor: the scalar (a
\* vector), or the scalars of row i (a matrix).
EntryValues(t, i) ==
    IF Len(t.shape) = 1 THEN {t.data[i]}
    ELSE {t.data[i][j] : j \in 1 .. t.shape[2]}

\* dot(embedding[s], embedding[d]) + bias[d] for labeled edge e of the last
\* forward call, embedding being what get_embedding returns.
EdgeScore(e) ==
    LET emb == get_embedding(ret.args.graph, ret.args.edge_weight,
                             ret.args.num_users, ret.args.num_items,
                             ret.args.scaling_factor).out
        sd == RowDot(emb[LastLabels.src[e] + 1], emb[LastLabels.dst[e] + 1])
    IN  Score(sd.dot, sd.dens, beta[LastLabels.dst[e] + 1])

\* C2: the score returned for labeled edge i (entry i of pos_rank in the
\* first half, entry i - n of neg_rank in the second) is
\* dot(embedding[s_i], embedding[d_i]) + bias[d_i].
C2_EachEdgeGetsItsOwnBias ==
    ret.op = "forward" /\ ret.status = "ok" /\ LabelCount % 2 = 0
    => LET n == LabelCount \div 2
       IN  \A i \in 1 .. n :
              /\ \A v \in EntryValues(ret.result.pos_rank, i) : v = EdgeScore(i)
              /\ \A v \in EntryValues(ret.result.neg_rank, i) : v = EdgeScore(n + i)

\* C5: forward with an odd number of labeled edges fails and returns no
\* pair.
C5_OddLabelCountFails ==
    ret.op = "forward" /\ LabelCount % 2 = 1 => ret.status = "error"

\* C4: predict_link completes for every valid graph, and passes its
\* edge_weight argument on as the propagation edge weights, never as a
\* partition size.
C4_PredictLinkCompletes ==
    ret.op = "predict_link"
    => /\ ret.status = "ok"
       /\ ret.result.forward_call.num_users.kind # "tensor"
       /\ ret.result.forward_call.edge_weight.kind = ret.args.edge_weight.kind

\* C3: recommend, called with (graph, edge_weight, src_index, dst_index,
\* k = 1), completes and returns for each source row the destination of the
\* largest entry of that row of src_emb . dst_emb^T.
C3_RecommendReturnsTheRowMaximum ==
    ret.op = "recommend" /\ ret.args.k = 1
    => /\ ret.status = "ok"
       /\ LET emb == get_embedding(ret.args.graph, ret.args.edge_weight,
                                   None, None, None).out
              srcs == IF ret.args.src_index.kind = "none"
                      THEN [i \in 1 .. num_nodes |-> i - 1]
                      ELSE ret.args.src_index.v
              dsts == IF ret.args.dst_index.kind = "none"
                      THEN [j \in 1 .. num_nodes |-> j - 1]
                      ELSE ret.args.dst_index.v
          IN  \A i \in 1 .. Len(srcs) :
                 /\ \E j \in 1 .. Len(dsts) : ret.result.top_index[i][1] = dsts[j]
                 /\ \A j \in 1 .. Len(dsts) :
                       ~ScoreLess(
                           RowDot(emb[srcs[i] + 1], emb[ret.result.top_index[i][1] + 1]),
                           RowDot(emb[srcs[i] + 1], emb[dsts[j] + 1]))

\* ----------------------------------------------------- construction claims

\* C6: a construction with an explicit alpha, Tensor or other sequence, whose
\* length is not num_layers + 1 fails; a constructed model holds an alpha of
\* num_layers + 1 scalars, each 1 / (num_layers + 1) when none was given.
C6_AlphaLengthIsChecked ==
    ret.op = "__init__"
    => /\ ret.args.alpha.kind \in {"tensor", "list"}
          /\ Len(ret.args.alpha.val) # ret.args.num_layers + 1
          => ret.status = "error"
       /\ ret.status = "ok"
          => /\ alpha.shape = <<num_layers + 1>>
             /\ ret.args.alpha.kind = "none"
                => \A i \in 1 .. (num_layers + 1) :
                      alpha.data[i] = Rat(1, num_layers + 1)

\* ------------------------------------------------------------ loss claims

\* C9: with lambda_reg = 0, recommendation_loss returns
\* -mean(log(sigmoid(pos_rank - neg_rank))) with no regularization term, the
\* same for every embedding table and every node_id, takes no norm, and leaves
\* the embedding and bias tables as they were.
C9_ZeroLambdaLossIgnoresEmbeddings ==
    /\ [](ret.op = "recommendation_loss" /\ ret.args.lambda_reg = Zero
          => ret.result =
                [nll_of |-> Tup([k \in 1 .. Len(ret.args.pos_edge_rank) |->
                                ret.args.pos_edge_rank[k] - ret.args.neg_edge_rank[k]]),
                 regularization |-> Zero,
                 norm_computed |-> FALSE])
    /\ [][ret'.op = "recommendation_loss" => UNCHANGED <<embedding, beta>>]_vars

\* C9's case: lambda_reg = 0, pos_rank = [2], neg_rank = [0], a node_id
\* given, and an embedding table whose norm is not 0.
C9_Witness ==
    /\ ret.op = "recommendation_loss"
    /\ ret.args.lambda_reg = Zero
    /\ ret.args.pos_edge_rank = <<2>>
    /\ ret.args.neg_edge_rank = <<0>>
    /\ ret.args.node_id.kind = "tensor"
    /\ SumSq(embedding) # Zero
    /\ ret.result.nll_of = <<2>>

=============================================================================
